---- MODULE Spec2Model ----
(***************************************************************************)
(* hive-jwt-auth: the expiration resolver (utils/validation), the token   *)
(* signer (HiveJwtCreator), the registry client                           *)
(* (HivePublicKeyServiceClient) with the registry it talks to, the key    *)
(* pair (HiveKeyPair) and the signing commands of the command line.       *)
(*                                                                         *)
(* Strings that the code inspects character by character (expirations)    *)
(* are sequences of one-character strings.  A JavaScript number is          *)
(* Num(v) for an integer v, or NaN.  A millisecond count returned by ms() *)
(* may be fractional and is the exact rational num/den.                   *)
(***************************************************************************)
EXTENDS Integers, Sequences, FiniteSets, TLC

VARIABLES
    now,        \* the wall clock, Date.now(), in milliseconds
    expInput,   \* the string handed to the expiration resolver
    expMode,    \* which resolver ran last: "none", "absolute", "relative"
    expAt,      \* the clock when it ran
    expResult,  \* what it returned or threw
    client,     \* the registry client's fields: partnerId and its axios client
    cpc,        \* the client's current invocation: "idle", "awaiting", "done"
    call,       \* the operation invoked and its arguments
    sent,       \* the requests this invocation has issued, in order
    reply,      \* how the transport settled the request
    outcome,    \* what the invocation returned or threw
    signer,     \* the HiveJwtCreator's fields: partnerId and privateKey
    signCall,   \* the signer or claim-construction call made last
    signResult, \* what that call returned or threw
    signPrev,   \* an earlier signer call, kept with its result for comparison
    registry,   \* the remote registry's records
    pending,    \* invocations of the client that wait while another one runs
    history,    \* per key, what the client's successful calls did to it
    built,      \* the arguments the client was constructed with, if it was
    files,      \* the key files on disk, by path
    keyCall,    \* the HiveKeyPair operation invoked last
    keyResult,  \* what it returned or threw
    cliCall,    \* the command line run last
    cliResult   \* what it printed, or the error it failed with

expVars == <<expInput, expMode, expAt, expResult>>
clientVars ==
    <<client, cpc, call, sent, reply, outcome, registry, pending, history,
      built>>
signVars == <<signer, signCall, signResult, signPrev>>
keyVars == <<files, keyCall, keyResult>>
cliVars == <<cliCall, cliResult>>
vars == <<now, expVars, clientVars, signVars, keyVars, cliVars>>

----------------------------------------------------------------------------
(* Bounds *)

\* longest expiration string tried
MaxLen == 3
\* the clock takes the values 0, ClockStep, ..., MaxClock * ClockStep
MaxClock == 2
ClockStep == 750

\* most invocations of the client that wait while another one runs
MaxPending == 1

\* the characters expiration strings are built from
Chars == {"0", "1", "2", "s", "m", "h", "H", " ", "-", "."}

Strings == UNION {[1..n -> Chars] : n \in 0..MaxLen}

Clocks == {k * ClockStep : k \in 0..MaxClock}

----------------------------------------------------------------------------
(* JavaScript values *)

\* a JavaScript number: an integer, or NaN
Num(v) == [nan |-> FALSE, v |-> v]
NaN == [nan |-> TRUE, v |-> 0]

None == [kind |-> "none"]

Return(v) == [kind |-> "return", value |-> v]
\* a call that ends by throwing the value e
Throw(e) == [kind |-> "throw", error |-> e]
\* new Error(`${msg}${arg}`)
Error(msg, arg) == [name |-> "Error", message |-> msg, arg |-> arg]

isNaN(x) == x.nan


\* the characters matched by \d
DigitChars == {"0", "1", "2", "3", "4", "5", "6", "7", "8", "9"}

DigitVal(c) ==
    CASE c = "0" -> 0 [] c = "1" -> 1 [] c = "2" -> 2 [] c = "3" -> 3
      [] c = "4" -> 4 [] c = "5" -> 5 [] c = "6" -> 6 [] c = "7" -> 7
      [] c = "8" -> 8 [] c = "9" -> 9

AllDigits(s) == \A i \in 1..Len(s) : s[i] \in DigitChars

RECURSIVE Pow10(_)
Pow10(k) == IF k = 0 THEN 1 ELSE 10 * Pow10(k - 1)

\* the value of a run of decimal digits (0 for the empty run)
RECURSIVE DigitsValue(_)
DigitsValue(s) ==
    IF Len(s) = 0 THEN 0
    ELSE 10 * DigitsValue(SubSeq(s, 1, Len(s) - 1)) + DigitVal(s[Len(s)])

\* String.prototype.toLowerCase, on one character
ToLowerChar(c) ==
    CASE c = "H" -> "h" [] c = "S" -> "s" [] c = "M" -> "m" [] c = "D" -> "d"
      [] c = "W" -> "w" [] c = "Y" -> "y" [] OTHER -> c

toLowerCase(s) == [i \in 1..Len(s) |-> ToLowerChar(s[i])]

\* the length of the longest prefix of s whose characters all lie in the set S
RECURSIVE PrefixLen(_, _)
PrefixLen(s, S) ==
    IF Len(s) > 0 /\ s[1] \in S THEN 1 + PrefixLen(Tail(s), S) ELSE 0


\* parseInt(s, 10): leading blanks, an optional sign, then the longest run of
\* digits; NaN when there is no digit
parseInt(s) ==
    LET t    == SubSeq(s, PrefixLen(s, {" "}) + 1, Len(s))
        neg  == Len(t) > 0 /\ t[1] = "-"
        u    == IF neg THEN Tail(t) ELSE t
        n    == PrefixLen(u, DigitChars)
        v    == DigitsValue(SubSeq(u, 1, n))
    IN  IF n = 0 THEN NaN ELSE IF neg THEN Num(0 - v) ELSE Num(v)

\* the JavaScript string spelled by a sequence of characters
RECURSIVE Join(_)
Join(s) == IF Len(s) = 0 THEN "" ELSE s[1] \o Join(Tail(s))

----------------------------------------------------------------------------
(* The ms package, as imported by utils/validation *)

\* a value returned by ms: the exact rational num/den (den a power of ten),
\* or undefined
Rat(num, den) == [def |-> TRUE, num |-> num, den |-> den]
undefined == [def |-> FALSE, num |-> 0, den |-> 1]

\* the group (-?(?:\d+)?\.?\d+) matching the whole of t
IsNumPart(t) ==
    LET body == IF Len(t) > 0 /\ t[1] = "-" THEN Tail(t) ELSE t
    IN  /\ Len(body) > 0
        /\ \A i \in 1..Len(body) : body[i] \in DigitChars \cup {"."}
        /\ Cardinality({i \in 1..Len(body) : body[i] = "."}) <= 1
        /\ body[Len(body)] \in DigitChars

\* parseFloat on a string that IsNumPart accepts
parseFloat(t) ==
    LET neg   == t[1] = "-"
        body  == IF neg THEN Tail(t) ELSE t
        whole == PrefixLen(body, DigitChars)
        frac  == IF whole = Len(body) THEN <<>>
                 ELSE SubSeq(body, whole + 2, Len(body))
        n     == DigitsValue(SubSeq(body, 1, whole) \o frac)
    IN  Rat(IF neg THEN 0 - n ELSE n, Pow10(Len(frac)))

\* the words of the unit group of the regular expression, in lower case
UnitWords ==
    {"milliseconds", "millisecond", "msecs", "msec", "ms",
     "seconds", "second", "secs", "sec", "s",
     "minutes", "minute", "mins", "min", "m",
     "hours", "hour", "hrs", "hr", "h",
     "days", "day", "d", "weeks", "week", "w",
     "years", "year", "yrs", "yr", "y"}

\* the switch of parse(): milliseconds in one unit of the given type
UnitMs(type) ==
    CASE type \in {"years", "year", "yrs", "yr", "y"} -> 86400000 * 365 + 21600000
      [] type \in {"weeks", "week", "w"} -> 604800000
      [] type \in {"days", "day", "d"} -> 86400000
      [] type \in {"hours", "hour", "hrs", "hr", "h"} -> 3600000
      [] type \in {"minutes", "minute", "mins", "min", "m"} -> 60000
      [] type \in {"seconds", "second", "secs", "sec", "s"} -> 1000
      [] type \in {"milliseconds", "millisecond", "msecs", "msec", "ms"} -> 1

\* parse(str): the millisecond count of a duration string, undefined when the
\* string is longer than 100 characters or does not match the pattern
MsParse(str) ==
    LET numLen == PrefixLen(str, DigitChars \cup {"-", "."})
        rest   == SubSeq(str, numLen + 1, Len(str))
        unit   == SubSeq(rest, PrefixLen(rest, {" "}) + 1, Len(rest))
        type   == IF Len(unit) = 0 THEN "ms" ELSE Join(toLowerCase(unit))
        n      == parseFloat(SubSeq(str, 1, numLen))
    IN  IF Len(str) > 100 THEN undefined
        ELSE IF ~IsNumPart(SubSeq(str, 1, numLen)) THEN undefined
        ELSE IF type \notin UnitWords THEN undefined
        ELSE Rat(n.num * UnitMs(type), n.den)

\* ms(val) on a string: parse it when it is not empty, throw otherwise
ms(val) ==
    IF Len(val) > 0 THEN Return(MsParse(val))
    ELSE Throw(Error("val is not a non-empty string or a valid number. val=", val))

----------------------------------------------------------------------------
(* utils/validation: the expiration resolver *)

\* /^\d+$/.test(value)
isNumeric(value) == Len(value) > 0 /\ AllDigits(value)

\* Math.floor((clock + d) / 1000) for a millisecond count d returned by ms;
\* adding undefined gives NaN
FloorSeconds(clock, d) ==
    IF ~d.def THEN NaN
    ELSE Num((clock * d.den + d.num) \div (1000 * d.den))

\* checkExpiration with a digit string taken as seconds from now
checkExpiration_numericFromNow(expiration, clock) ==
    LET d   == ms(expiration)
        exp == IF isNumeric(expiration)
               THEN Num(clock \div 1000 + parseInt(expiration).v)
               ELSE FloorSeconds(clock, d.value)
    IN  IF ~isNumeric(expiration) /\ d.kind = "throw" THEN d
        ELSE IF isNaN(exp) THEN Throw(Error("Invalid expiration: ", expiration))
        ELSE Return(exp)

checkExpiration(expiration, clock) ==
    LET d   == ms(expiration)
        exp == IF isNumeric(expiration) THEN parseInt(expiration)
               ELSE FloorSeconds(clock, d.value)
    IN  IF ~isNumeric(expiration) /\ d.kind = "throw" THEN d
        ELSE IF isNaN(exp) THEN Throw(Error("Invalid expiration: ", expiration))
        ELSE Return(exp)

\* checkExpiresIn without the division by 1000
checkExpiresIn_milliseconds(expiration) ==
    LET d   == ms(expiration)
        exp == IF isNumeric(expiration) THEN parseInt(expiration)
               ELSE IF ~d.value.def THEN NaN
               ELSE Num(d.value.num \div d.value.den)
    IN  IF ~isNumeric(expiration) /\ d.kind = "throw" THEN d
        ELSE IF isNaN(exp) THEN Throw(Error("Invalid expiresIn: ", expiration))
        ELSE Return(exp)

checkExpiresIn(expiration) ==
    LET d   == ms(expiration)
        exp == IF isNumeric(expiration) THEN parseInt(expiration)
               ELSE FloorSeconds(0, d.value)
    IN  IF ~isNumeric(expiration) /\ d.kind = "throw" THEN d
        ELSE IF isNaN(exp) THEN Throw(Error("Invalid expiresIn: ", expiration))
        ELSE Return(exp)

----------------------------------------------------------------------------
(* HivePublicKeyServiceClient *)

PartnerIds == {"p1", "p2"}
PartnerTokens == {"t1"}
Endpoints == {"prod", "test"}
KeyIds == {"k1", "k2"}

\* an optional argument that was not passed
Absent == "<undefined>"

\* the expiration arguments tried with create: strings and numbers
ExpirationArgs ==
    {[type |-> "string", s |-> <<"1", "2">>],
     [type |-> "string", s |-> <<"1", "h">>],
     [type |-> "string", s |-> <<"h">>],
     [type |-> "string", s |-> <<>>],
     [type |-> "number", n |-> Num(12)],
     [type |-> "number", n |-> Num(0)]}

\* the bodies of error responses: a list of messages, or one text
ErrorBodies ==
    {[array |-> TRUE, items |-> <<>>],
     [array |-> TRUE, items |-> <<"keyId is required">>],
     [array |-> TRUE, items |-> <<"bad modulus", "bad exponent">>],
     [array |-> FALSE, items |-> <<"Forbidden">>]}

\* the statuses of error responses
Statuses == {400, 401, 403, 404, 410, 500}

\* what a request can be rejected with: an AxiosError with a response, an
\* AxiosError without one (the request never got an answer), any other error
Rejections ==
    {[isAxiosError |-> TRUE, hasResponse |-> TRUE, status |-> st, data |-> d,
      message |-> "Request failed with status code"]
        : st \in Statuses, d \in ErrorBodies}
    \cup {[isAxiosError |-> TRUE, hasResponse |-> FALSE, status |-> 0,
           data |-> [array |-> FALSE, items |-> <<>>], message |-> m]
            : m \in {"Network Error", "timeout exceeded"}}
    \cup {[isAxiosError |-> FALSE, hasResponse |-> TRUE, status |-> st,
           data |-> [array |-> FALSE, items |-> <<>>], message |-> "TypeError"]
            : st \in {0, 403}}

\* the constructor putting a hyphen and the endpoint in every hostname
NewClient_hyphenated(partnerId, partnerToken, endpoint) ==
    [partnerId |-> partnerId,
     baseURL   |-> "https://api-" \o endpoint \o ".hivestreaming.com/v1",
     headers   |-> [XHivePartnerToken |-> partnerToken,
                    ContentType |-> "application/json"]]

\* constructor(partnerId, partnerToken, endpoint)
NewClient(partnerId, partnerToken, endpoint) ==
    [partnerId |-> partnerId,
     baseURL   |-> "https://api"
                     \o (IF endpoint = "prod" THEN "" ELSE "-" \o endpoint)
                     \o ".hivestreaming.com/v1",
     headers   |-> [XHivePartnerToken |-> partnerToken,
                    ContentType |-> "application/json"]]

\* a client just constructed, with no invocation under way
ClientIdle(partnerId, partnerToken, endpoint) ==
    /\ client = NewClient(partnerId, partnerToken, endpoint)
    /\ cpc = "idle"
    /\ call = [op |-> "none"]
    /\ sent = <<>>
    /\ reply = None
    /\ outcome = None
    /\ registry = {}
    /\ pending = <<>>
    /\ history = [k \in KeyIds |-> "never"]
    /\ built = [kind |-> "constructed", partnerId |-> partnerId,
                partnerToken |-> partnerToken, endpoint |-> endpoint]

\* the request axios issues for this.client.<method>(url, body)
Request(method, url, body) ==
    [method |-> method, baseURL |-> client.baseURL, url |-> url,
     headers |-> client.headers, body |-> body]

NoBody == [none |-> TRUE]

\* axios.isAxiosError(error)
isAxiosError(error) == "isAxiosError" \in DOMAIN error /\ error.isAxiosError

HiveAuthorizationError == [name |-> "HiveAuthorizationError"]

\* Array.prototype.join
RECURSIVE JoinWith(_, _)
JoinWith(items, sep) ==
    IF Len(items) = 0 THEN ""
    ELSE IF Len(items) = 1 THEN items[1]
    ELSE items[1] \o sep \o JoinWith(Tail(items), sep)

\* new HivePublicKeyValidationError(errors)
HivePublicKeyValidationError(errors) ==
    [name |-> "HiveValidationError",
     message |-> "Public key validation error: "
                   \o (IF errors.array THEN JoinWith(errors.items, "; ")
                       ELSE errors.items[1])]

HivePublicKeyNotFoundError(partnerId, keyId) ==
    [name |-> "HivePublicKeyNotFoundError", partnerId |-> partnerId,
     keyId |-> keyId]

HivePublicKeyDeletedError(partnerId, keyId) ==
    [name |-> "HivePublicKeyDeletedError", partnerId |-> partnerId,
     keyId |-> keyId]

\* axiosErrorHandler without the 403 branch
axiosErrorHandler_no403(error, keyId) ==
    IF isAxiosError(error) /\ error.hasResponse
    THEN CASE error.status = 400 -> HivePublicKeyValidationError(error.data)
           [] error.status = 404 ->
                HivePublicKeyNotFoundError(client.partnerId, keyId)
           [] error.status = 410 ->
                HivePublicKeyDeletedError(client.partnerId, keyId)
           [] OTHER -> error
    ELSE error

\* axiosErrorHandler mapping 404 and 410 only when it was given a keyId
axiosErrorHandler_keyedOnly(error, keyId) ==
    IF isAxiosError(error) /\ error.hasResponse
    THEN CASE error.status = 400 -> HivePublicKeyValidationError(error.data)
           [] error.status = 403 -> HiveAuthorizationError
           [] error.status = 404 /\ keyId # Absent ->
                HivePublicKeyNotFoundError(client.partnerId, keyId)
           [] error.status = 410 /\ keyId # Absent ->
                HivePublicKeyDeletedError(client.partnerId, keyId)
           [] OTHER -> error
    ELSE error

\* axiosErrorHandler wrapping what it does not recognise in a new Error
axiosErrorHandler_wrap(error, keyId) ==
    IF isAxiosError(error) /\ error.hasResponse
    THEN CASE error.status = 400 -> HivePublicKeyValidationError(error.data)
           [] error.status = 403 -> HiveAuthorizationError
           [] error.status = 404 ->
                HivePublicKeyNotFoundError(client.partnerId, keyId)
           [] error.status = 410 ->
                HivePublicKeyDeletedError(client.partnerId, keyId)
           [] OTHER -> [name |-> "Error", cause |-> error]
    ELSE [name |-> "Error", cause |-> error]

\* axiosErrorHandler taking 410 for 404
axiosErrorHandler_goneIsNotFound(error, keyId) ==
    IF isAxiosError(error) /\ error.hasResponse
    THEN CASE error.status = 400 -> HivePublicKeyValidationError(error.data)
           [] error.status = 403 -> HiveAuthorizationError
           [] error.status = 404 ->
                HivePublicKeyNotFoundError(client.partnerId, keyId)
           [] error.status = 410 ->
                HivePublicKeyNotFoundError(client.partnerId, keyId)
           [] OTHER -> error
    ELSE error

\* axiosErrorHandler(error, keyId): the value it throws
axiosErrorHandler(error, keyId) ==
    IF isAxiosError(error) /\ error.hasResponse
    THEN CASE error.status = 400 -> HivePublicKeyValidationError(error.data)
           [] error.status = 403 -> HiveAuthorizationError
           [] error.status = 404 ->
                HivePublicKeyNotFoundError(client.partnerId, keyId)
           [] error.status = 410 ->
                HivePublicKeyDeletedError(client.partnerId, keyId)
           [] OTHER -> error
    ELSE error

\* the keyId each operation hands to axiosErrorHandler
HandlerKeyId(c) == IF c.op \in {"get", "create"} THEN c.keyId ELSE Absent

\* the invocation issues its one request and waits for it
Issue(c, request) ==
    /\ cpc = "idle"
    /\ cpc' = "awaiting"
    /\ call' = c
    /\ sent' = <<request>>
    /\ reply' = None
    /\ outcome' = None
    /\ UNCHANGED <<now, client, built, registry, pending, history, expVars, signVars,
                 keyVars, cliVars>>

\* get issuing its request with the DELETE method
Get_withDelete(keyId) ==
    Issue([op |-> "get", keyId |-> keyId],
          Request("DELETE", "/publickey/" \o client.partnerId \o "/" \o keyId,
                  NoBody))

\* get(keyId)
Get(keyId) ==
    Issue([op |-> "get", keyId |-> keyId],
          Request("GET", "/publickey/" \o client.partnerId \o "/" \o keyId,
                  NoBody))

\* list(includeDeleted)
List(includeDeleted) ==
    Issue([op |-> "list", includeDeleted |-> includeDeleted],
          Request("GET", "/publickey/" \o client.partnerId
                           \o "?includeDeleted="
                           \o (IF includeDeleted THEN "true" ELSE "false"),
                  NoBody))

\* delete(keyId)
Delete(keyId) ==
    Issue([op |-> "delete", keyId |-> keyId],
          Request("DELETE", "/publickey/" \o client.partnerId \o "/" \o keyId,
                  NoBody))

\* create keeping the partner id it was given as the client's own
Create_bindsPartner(partnerId, keyId, exponent, modulus, expiration) ==
    LET c == [op |-> "create", partnerId |-> partnerId, keyId |-> keyId,
              exponent |-> exponent, modulus |-> modulus,
              expiration |-> expiration]
        r == IF expiration.type = "string"
             THEN checkExpiration(expiration.s, now)
             ELSE Return(expiration.n)
    IN  /\ cpc = "idle"
        /\ client' = [client EXCEPT !.partnerId = partnerId]
        /\ call' = c
        /\ reply' = None
        /\ IF r.kind = "throw"
           THEN /\ cpc' = "done"
                /\ sent' = <<>>
                /\ outcome' = Throw(axiosErrorHandler(r.error, keyId))
           ELSE /\ cpc' = "awaiting"
                /\ sent' = <<Request("POST", "/publickey",
                                     [partnerId |-> partnerId,
                                      keyId |-> keyId,
                                      exponent |-> exponent,
                                      modulus |-> modulus,
                                      expiration |-> r.value])>>
                /\ outcome' = None
        /\ UNCHANGED <<now, built, registry, pending, history, expVars, signVars,
                       keyVars, cliVars>>

\* create(partnerId, keyId, exponent, modulus, expiration): a string
\* expiration is resolved first, and a resolution that throws is handled by
\* the catch block before any request is made
Create(partnerId, keyId, exponent, modulus, expiration) ==
    LET c == [op |-> "create", partnerId |-> partnerId, keyId |-> keyId,
              exponent |-> exponent, modulus |-> modulus,
              expiration |-> expiration]
        r == IF expiration.type = "string"
             THEN checkExpiration(expiration.s, now)
             ELSE Return(expiration.n)
    IN  IF r.kind = "throw"
        THEN /\ cpc = "idle"
             /\ cpc' = "done"
             /\ call' = c
             /\ sent' = <<>>
             /\ reply' = None
             /\ outcome' = Throw(axiosErrorHandler(r.error, keyId))
             /\ UNCHANGED <<now, client, built, registry, pending, history, expVars,
                            signVars, keyVars, cliVars>>
        ELSE Issue(c, Request("POST", "/publickey",
                              [partnerId |-> partnerId, keyId |-> keyId,
                               exponent |-> exponent, modulus |-> modulus,
                               expiration |-> r.value]))

\* the bodies of successful responses to the pending request
ResponseBodies ==
    IF call.op = "get"
    THEN {[partnerId |-> client.partnerId, keyId |-> call.keyId,
           exponent |-> "AQAB", modulus |-> "n1", expiration |-> 12,
           createdAt |-> 1]}
    ELSE IF call.op = "list"
    THEN {<<>>,
          <<[partnerId |-> client.partnerId, keyId |-> "k1",
             expiration |-> 12, createdAt |-> 1]>>}
    ELSE {NoBody}

\* what the client's successful calls have done to its partner's keys, after
\* call c settled as reply r
Recorded(h, c, r) ==
    IF r.kind = "resolve" /\ c.op = "create"
       /\ c.partnerId = client.partnerId
    THEN [h EXCEPT ![c.keyId] = "created"]
    ELSE IF r.kind = "resolve" /\ c.op = "delete"
    THEN [h EXCEPT ![c.keyId] = "deleted"]
    ELSE h

\* the awaited request settles as r, resolved or rejected: get and list
\* return res.data, create and delete return nothing, and the catch block
\* hands a rejection to axiosErrorHandler, which throws
Deliver(r) ==
    /\ cpc = "awaiting"
    /\ cpc' = "done"
    /\ reply' = r
    /\ outcome' = IF r.kind = "resolve"
                  THEN Return(IF call.op \in {"get", "list"} THEN r.data
                              ELSE NoBody)
                  ELSE Throw(axiosErrorHandler(r.error, HandlerKeyId(call)))
    /\ history' = Recorded(history, call, r)
    /\ UNCHANGED <<now, client, built, call, sent, pending, expVars, signVars,
                   keyVars, cliVars>>

\* the awaited request resolves with the response body data
Resolve(data) ==
    /\ Deliver([kind |-> "resolve", data |-> data])
    /\ UNCHANGED registry

\* Reject sending the request again when no response came
Reject_retry(error) ==
    /\ cpc = "awaiting"
    /\ reply' = [kind |-> "reject", error |-> error]
    /\ IF isAxiosError(error) /\ ~error.hasResponse /\ Len(sent) < 2
       THEN /\ cpc' = "awaiting"
            /\ sent' = Append(sent, sent[1])
            /\ outcome' = None
       ELSE /\ cpc' = "done"
            /\ sent' = sent
            /\ outcome' = Throw(axiosErrorHandler(error, HandlerKeyId(call)))
    /\ UNCHANGED <<now, client, built, registry, pending, history, call, expVars,
                   signVars, keyVars, cliVars>>

\* the awaited request is rejected with error
Reject(error) ==
    /\ Deliver([kind |-> "reject", error |-> error])
    /\ UNCHANGED registry

\* the caller has the result; the client is free for the next invocation
Settle ==
    /\ cpc = "done"
    /\ cpc' = "idle"
    /\ call' = [op |-> "none"]
    /\ sent' = <<>>
    /\ reply' = None
    /\ outcome' = None
    /\ UNCHANGED <<now, client, built, registry, pending, history, expVars, signVars,
                 keyVars, cliVars>>


\* the awaiting invocation leaves the thread to the caller's other code,
\* which may invoke the client again
Park ==
    /\ cpc = "awaiting"
    /\ Len(pending) < MaxPending
    /\ pending' = Append(pending, [call |-> call, sent |-> sent])
    /\ cpc' = "idle"
    /\ call' = [op |-> "none"]
    /\ sent' = <<>>
    /\ reply' = None
    /\ outcome' = None
    /\ UNCHANGED <<now, client, built, registry, history, expVars, signVars, keyVars,
                   cliVars>>

\* the i-th waiting invocation is the one whose request settles next
Resume(i) ==
    /\ cpc = "idle"
    /\ i \in 1..Len(pending)
    /\ pending' = SubSeq(pending, 1, i - 1)
                    \o SubSeq(pending, i + 1, Len(pending))
    /\ cpc' = "awaiting"
    /\ call' = pending[i].call
    /\ sent' = pending[i].sent
    /\ reply' = None
    /\ outcome' = None
    /\ UNCHANGED <<now, client, built, registry, history, expVars, signVars, keyVars,
                   cliVars>>

----------------------------------------------------------------------------
(* The remote registry, as its wire contract describes it *)

\* the partner a bearer token belongs to
TokenPartner(token) == IF token = "t1" THEN "p1" ELSE Absent

\* the order in which a listing gives a partner's keys
KeyOrder == <<"k1", "k2">>

\* the error axios rejects with when the response has an error status
HttpError(status, body) ==
    [isAxiosError |-> TRUE, hasResponse |-> TRUE, status |-> status,
     data |-> body, message |-> "Request failed with status code"]

\* the registry after a request, and how the request settles
Answered(reg, data) ==
    [registry |-> reg, reply |-> [kind |-> "resolve", data |-> data]]

Refused(reg, status, body) ==
    [registry |-> reg,
     reply |-> [kind |-> "reject", error |-> HttpError(status, body)]]

\* the records of one partner id and key id: none or one
RecordsOf(reg, partnerId, keyId) ==
    {r \in reg : r.partnerId = partnerId /\ r.keyId = keyId}

\* the body of GET /publickey/{partnerId}/{keyId}
PublicKeyInfo(r) ==
    [partnerId |-> r.partnerId, keyId |-> r.keyId, exponent |-> r.exponent,
     modulus |-> r.modulus, expiration |-> r.expiration,
     createdAt |-> r.createdAt]

\* a listing that gives the records with their key material
PublicKeyInfoRedacted_withKey(r) ==
    IF r.deletedAt = <<>>
    THEN PublicKeyInfo(r)
    ELSE PublicKeyInfo(r) @@ [deletedAt |-> r.deletedAt[1]]

\* an entry of the body of GET /publickey/{partnerId}
PublicKeyInfoRedacted(r) ==
    IF r.deletedAt = <<>>
    THEN [partnerId |-> r.partnerId, keyId |-> r.keyId,
          expiration |-> r.expiration, createdAt |-> r.createdAt]
    ELSE [partnerId |-> r.partnerId, keyId |-> r.keyId,
          expiration |-> r.expiration, createdAt |-> r.createdAt,
          deletedAt |-> r.deletedAt[1]]

\* the body of GET /publickey/{partnerId}?includeDeleted={bool}
PublicKeyInfoRedactedList(reg, partnerId, includeDeleted) ==
    LET Listed(k) == \E r \in RecordsOf(reg, partnerId, k) :
                        includeDeleted \/ r.deletedAt = <<>>
        keys == SelectSeq(KeyOrder, Listed)
    IN  [i \in 1..Len(keys) |->
           PublicKeyInfoRedacted(
               CHOOSE r \in RecordsOf(reg, partnerId, keys[i]) : TRUE)]

Forbidden == [array |-> FALSE, items |-> <<"Forbidden">>]
NotFound == [array |-> FALSE, items |-> <<"Not Found">>]
Gone == [array |-> FALSE, items |-> <<"Gone">>]

\* POST /publickey: the record is stored as sent, stamped with the second
\* of its creation; a second record of the same identity is refused
RegistryPost(reg, caller, body, second) ==
    IF body.partnerId # caller THEN Refused(reg, 403, Forbidden)
    ELSE IF body.expiration.nan
    THEN Refused(reg, 400,
                 [array |-> TRUE, items |-> <<"expiration must be a number">>])
    ELSE IF RecordsOf(reg, body.partnerId, body.keyId) # {}
    THEN Refused(reg, 400, [array |-> TRUE, items |-> <<"keyId exists">>])
    ELSE Answered(reg \cup {[partnerId |-> body.partnerId,
                             keyId |-> body.keyId,
                             exponent |-> body.exponent,
                             modulus |-> body.modulus,
                             expiration |-> body.expiration.v,
                             createdAt |-> second,
                             deletedAt |-> <<>>]},
                  NoBody)

\* GET /publickey/{partnerId}/{keyId}: 404 if absent, 410 if deleted
RegistryGet(reg, caller, partnerId, keyId) ==
    LET recs == RecordsOf(reg, partnerId, keyId)
        r    == CHOOSE x \in recs : TRUE
    IN  IF partnerId # caller THEN Refused(reg, 403, Forbidden)
        ELSE IF recs = {} THEN Refused(reg, 404, NotFound)
        ELSE IF r.deletedAt # <<>> THEN Refused(reg, 410, Gone)
        ELSE Answered(reg, PublicKeyInfo(r))

\* GET /publickey/{partnerId}?includeDeleted={bool}
RegistryList(reg, caller, partnerId, includeDeleted) ==
    IF partnerId # caller THEN Refused(reg, 403, Forbidden)
    ELSE Answered(reg,
                  PublicKeyInfoRedactedList(reg, partnerId, includeDeleted))

\* DELETE /publickey/{partnerId}/{keyId}: the record gets its deletion
\* timestamp; 404 if absent, 410 if deleted
RegistryDelete(reg, caller, partnerId, keyId, second) ==
    LET recs == RecordsOf(reg, partnerId, keyId)
        r    == CHOOSE x \in recs : TRUE
    IN  IF partnerId # caller THEN Refused(reg, 403, Forbidden)
        ELSE IF recs = {} THEN Refused(reg, 404, NotFound)
        ELSE IF r.deletedAt # <<>> THEN Refused(reg, 410, Gone)
        ELSE Answered((reg \ {r})
                          \cup {[r EXCEPT !.deletedAt = <<second>>]},
                      NoBody)

\* the registry handling one request at the given clock
RegistryHandle(reg, request, clock) ==
    LET second == clock \div 1000
        caller == TokenPartner(request.headers.XHivePartnerToken)
        one    == {pk \in PartnerIds \X KeyIds :
                     request.url = "/publickey/" \o pk[1] \o "/" \o pk[2]}
        many   == {pd \in PartnerIds \X BOOLEAN :
                     request.url = "/publickey/" \o pd[1]
                                     \o "?includeDeleted="
                                     \o (IF pd[2] THEN "true" ELSE "false")}
        pk     == CHOOSE x \in one : TRUE
        pd     == CHOOSE x \in many : TRUE
    IN  CASE request.method = "POST" /\ request.url = "/publickey" ->
               RegistryPost(reg, caller, request.body, second)
          [] request.method = "GET" /\ one # {} ->
               RegistryGet(reg, caller, pk[1], pk[2])
          [] request.method = "GET" /\ many # {} ->
               RegistryList(reg, caller, pd[1], pd[2])
          [] request.method = "DELETE" /\ one # {} ->
               RegistryDelete(reg, caller, pk[1], pk[2], second)
          [] OTHER -> Refused(reg, 404, NotFound)

\* the registry answers the awaited request
Serve ==
    LET h == RegistryHandle(registry, sent[Len(sent)], now)
    IN  /\ cpc = "awaiting"
        /\ registry' = h.registry
        /\ Deliver(h.reply)

----------------------------------------------------------------------------
(* utils/validation: claim construction *)

\* an optional argument: passed, or left out
Some(x) == [given |-> TRUE, it |-> x]
NoArg == [given |-> FALSE, it |-> <<>>]

\* checkManifestOrArray returning { man } whenever the manifest is not empty
checkManifestOrArray_manifestWins(manifest, regexes) ==
    IF Len(manifest) = 0 /\ regexes.given /\ Len(regexes.it) > 0
    THEN Return([man |-> manifest, regexes |-> regexes.it])
    ELSE IF Len(manifest) > 0
    THEN Return([man |-> manifest])
    ELSE Throw(Error("Only one of manifest or regex list can be defined.", ""))

\* checkManifestOrArray treating no manifest and no regexes as reporting only
checkManifestOrArray_reportingFallback(manifest, regexes) ==
    IF Len(manifest) = 0 /\ regexes.given /\ Len(regexes.it) > 0
    THEN Return([man |-> manifest, regexes |-> regexes.it])
    ELSE IF Len(manifest) > 0 /\ ~regexes.given
    THEN Return([man |-> manifest])
    ELSE IF Len(manifest) = 0
    THEN Return([act |-> "reporting"])
    ELSE Throw(Error("Only one of manifest or regex list can be defined.", ""))

checkManifestOrArray(manifest, regexes) ==
    IF Len(manifest) = 0 /\ regexes.given /\ Len(regexes.it) > 0
    THEN Return([man |-> manifest, regexes |-> regexes.it])
    ELSE IF Len(manifest) > 0 /\ ~regexes.given
    THEN Return([man |-> manifest])
    ELSE Throw(Error("Only one of manifest or regex list can be defined.", ""))

\* checkEndpoint(endpoint): the endpoint itself when it is prod or test
checkEndpoint(endpoint) ==
    IF endpoint = "prod" \/ endpoint = "test"
    THEN Return(endpoint)
    ELSE Throw(Error("Invalid endpoint: ", endpoint))

\* checkPartnerToken accepting the empty string
checkPartnerToken_undefinedOnly(partnerToken) ==
    IF partnerToken = Absent
    THEN Throw(Error("No HIVE_PARTNER_TOKEN environmental variable set", ""))
    ELSE Return(Absent)

\* checkPartnerToken(partnerToken): throws for undefined and for the empty
\* string, returns nothing
checkPartnerToken(partnerToken) ==
    IF partnerToken = Absent \/ partnerToken = ""
    THEN Throw(Error("No HIVE_PARTNER_TOKEN environmental variable set", ""))
    ELSE Return(Absent)

----------------------------------------------------------------------------
(* HiveJwtCreator, and the sign function of jsonwebtoken that it calls *)

CustomerIds == {"c1"}
VideoIds == {"v1"}
PrivateKeys == {"pk1"}

\* the manifest and regex lists tried
Lists == {<<>>, <<"a">>, <<"a", "b">>}

\* the numbers tried as expiresIn
ExpiresInNumbers == {Num(0 - 60), Num(0), Num(60), NaN}

\* the expiresIn arguments tried: numbers and strings
ExpiresInArgs ==
    {[type |-> "number", n |-> n, s |-> <<>>] : n \in ExpiresInNumbers}
    \cup {[type |-> "string", n |-> NaN, s |-> str] : str \in Strings}

\* the expiresIn arguments tried when two calls are compared
ExpiresInPairArgs ==
    {[type |-> "number", n |-> Num(60), s |-> <<>>],
     [type |-> "string", n |-> NaN, s |-> <<"1", "h">>],
     [type |-> "string", n |-> NaN, s |-> <<"1", "2">>]}

\* the endpoint arguments tried with signReporting
EndpointArgs == {"prod", "test", "dev"}

\* jsonwebtoken's timespan(time, iat): the second at which a token issued at
\* second iat expires; NaN stands for its undefined
timespan(time, iat) ==
    IF time.type = "string"
    THEN LET milliseconds == ms(time.s).value
         IN  IF ~milliseconds.def THEN NaN
             ELSE Num((iat * 1000 * milliseconds.den + milliseconds.num)
                        \div (1000 * milliseconds.den))
    ELSE Num(iat + time.n.v)

\* the RS256 signature of header and payload under a private key
RS256(key, header, payload) ==
    [alg |-> "RS256", key |-> key, over |-> <<header, payload>>]

\* jwtSign also copying the key id into the payload
jwtSign_kidInPayload(payload, key, keyid, expiresIn, clock) ==
    LET timestamp == clock \div 1000
        valid     == IF expiresIn.type = "number" THEN ~expiresIn.n.nan
                     ELSE Len(expiresIn.s) > 0
        exp       == timespan(expiresIn, timestamp)
        header    == [alg |-> "RS256", typ |-> "JWT", kid |-> keyid]
        body      == payload @@ [iat |-> timestamp, exp |-> exp.v,
                                 kid |-> keyid]
    IN  IF ~valid
        THEN Throw(Error("\"expiresIn\" should be a number of seconds or string representing a timespan", ""))
        ELSE IF exp.nan
        THEN Throw(Error("\"expiresIn\" should be a number of seconds or string representing a timespan eg: \"1d\", \"20h\", 60", ""))
        ELSE Return([header |-> header, payload |-> body,
                     signature |-> RS256(key, header, body)])

\* jsonwebtoken's sign(payload, key, {algorithm: 'RS256', keyid, expiresIn}):
\* expiresIn must be an integer or a non-empty string and must give a
\* timespan; the payload gets iat and exp, the header the key id
jwtSign(payload, key, keyid, expiresIn, clock) ==
    LET timestamp == clock \div 1000
        valid     == IF expiresIn.type = "number" THEN ~expiresIn.n.nan
                     ELSE Len(expiresIn.s) > 0
        exp       == timespan(expiresIn, timestamp)
        header    == [alg |-> "RS256", typ |-> "JWT", kid |-> keyid]
        body      == payload @@ [iat |-> timestamp, exp |-> exp.v]
    IN  IF ~valid
        THEN Throw(Error("\"expiresIn\" should be a number of seconds or string representing a timespan", ""))
        ELSE IF exp.nan
        THEN Throw(Error("\"expiresIn\" should be a number of seconds or string representing a timespan eg: \"1d\", \"20h\", 60", ""))
        ELSE Return([header |-> header, payload |-> body,
                     signature |-> RS256(key, header, body)])

\* new HiveJwtCreator(partnerId, privateKey)
NewSigner(partnerId, privateKey) ==
    [partnerId |-> partnerId, privateKey |-> privateKey]

\* a signer just constructed, nothing signed yet
SignerIdle(partnerId, privateKey) ==
    /\ signer = NewSigner(partnerId, privateKey)
    /\ signCall = [op |-> "none"]
    /\ signResult = None
    /\ signPrev = None

\* sign putting the customer under sub and the video under cid
sign_subjectIsCustomer(this, keyId, customerId, videoId, manifests, expiresIn, clock) ==
    LET data == [iss |-> this.partnerId, sub |-> customerId, ver |-> "1.0",
                 aud |-> "https://hivestreaming.com", cid |-> videoId,
                 man |-> manifests]
    IN  jwtSign(data, this.privateKey, keyId, expiresIn, clock)

\* sign(keyId, customerId, videoId, manifests, expiresIn) on the signer
\* this, at the given clock
sign(this, keyId, customerId, videoId, manifests, expiresIn, clock) ==
    LET data == [iss |-> this.partnerId, sub |-> videoId, ver |-> "1.0",
                 aud |-> "https://hivestreaming.com", cid |-> customerId,
                 man |-> manifests]
    IN  jwtSign(data, this.privateKey, keyId, expiresIn, clock)

\* signReporting(keyId, customerId, videoId, expiresIn, endpoint) on the
\* signer this: the URL is the pair of the text before the token and the
\* token
signReporting(this, keyId, customerId, videoId, expiresIn, endpoint, clock) ==
    LET data  == [iss |-> this.partnerId, sub |-> videoId, ver |-> "1.0",
                  aud |-> "https://hivestreaming.com", cid |-> customerId,
                  act |-> "reporting"]
        token == jwtSign(data, this.privateKey, keyId, expiresIn, clock)
    IN  IF token.kind = "throw" THEN token
        ELSE Return([url |-> "https://api"
                               \o (IF endpoint = "prod" THEN ""
                                   ELSE "-" \o endpoint)
                               \o ".hivestreaming.com/v1/url-redirect/adminportal-jwt/",
                     token |-> token.value])

\* a call of sign on the signer
Sign(keyId, customerId, videoId, manifests, expiresIn) ==
    /\ signCall.op = "none"
    /\ signCall' = [op |-> "sign", keyId |-> keyId,
                    customerId |-> customerId, videoId |-> videoId,
                    manifests |-> manifests, expiresIn |-> expiresIn,
                    at |-> now]
    /\ signResult' = sign(signer, keyId, customerId, videoId, manifests,
                          expiresIn, now)
    /\ UNCHANGED <<now, signer, signPrev, expVars, clientVars, keyVars,
                   cliVars>>

\* a call of signReporting on the signer
SignReporting(keyId, customerId, videoId, expiresIn, endpoint) ==
    /\ signCall.op = "none"
    /\ signCall' = [op |-> "signReporting", keyId |-> keyId,
                    customerId |-> customerId, videoId |-> videoId,
                    expiresIn |-> expiresIn, endpoint |-> endpoint,
                    at |-> now]
    /\ signResult' = signReporting(signer, keyId, customerId, videoId,
                                   expiresIn, endpoint, now)
    /\ UNCHANGED <<now, signer, signPrev, expVars, clientVars, keyVars,
                   cliVars>>

\* checkManifestOrArray(manifest, regexes), called on its own
CheckManifestOrArray(manifest, regexes) ==
    /\ signCall.op = "none"
    /\ signCall' = [op |-> "checkManifestOrArray", manifest |-> manifest,
                    regexes |-> regexes]
    /\ signResult' = checkManifestOrArray(manifest, regexes)
    /\ UNCHANGED <<now, signer, signPrev, expVars, clientVars, keyVars,
                     cliVars>>

\* the caller has the result of the call; the signer keeps its fields
SignReturn ==
    /\ signCall.op # "none"
    /\ signCall' = [op |-> "none"]
    /\ signResult' = None
    /\ UNCHANGED <<now, signer, signPrev, expVars, clientVars, keyVars,
                     cliVars>>

\* the caller keeps the call and what it returned, and goes on to call again
SignKeep ==
    /\ signCall.op # "none"
    /\ signPrev' = [kind |-> "call", call |-> signCall, result |-> signResult]
    /\ signCall' = [op |-> "none"]
    /\ signResult' = None
    /\ UNCHANGED <<now, signer, expVars, clientVars, keyVars, cliVars>>

----------------------------------------------------------------------------
(* HiveKeyPair, and the functions of crypto and fs that it calls *)

FilePaths == {"a.pem", "b.pem"}

\* the RSA key pairs there are
KeyPairs == {"A", "B"}

\* a PEM block: its label and the key its body encodes, "corrupt" when the
\* body does not decode
Block(label, body) == [label |-> label, body |-> body]

NoFile == [exists |-> FALSE, blocks |-> <<>>]
File(blocks) == [exists |-> TRUE, blocks |-> blocks]

\* what a key file may hold: nothing, text without a PEM block, a private
\* key, a private key whose body is damaged, a public key only, and a
\* private key followed by the public key of another pair
FileContents ==
    {NoFile, File(<<>>),
     File(<<Block("PRIVATE KEY", "A")>>),
     File(<<Block("PRIVATE KEY", "B")>>),
     File(<<Block("PRIVATE KEY", "corrupt")>>),
     File(<<Block("PUBLIC KEY", "A")>>),
     File(<<Block("PRIVATE KEY", "A"), Block("PUBLIC KEY", "B")>>)}

\* a KeyObject
KeyObject(type, pair) == [type |-> type, pair |-> pair]

\* the first block of a buffer that has the label: PEM reading skips the
\* blocks of other labels
FirstBlock(blocks, label) ==
    LET at == {i \in 1..Len(blocks) : blocks[i].label = label}
    IN  IF at = {} THEN <<>>
        ELSE <<blocks[CHOOSE i \in at : \A j \in at : i <= j]>>

\* crypto.createPrivateKey(buffer): the key of the first private key block
createPrivateKey(blocks) ==
    LET found == FirstBlock(blocks, "PRIVATE KEY")
    IN  IF found = <<>>
        THEN Throw(Error("error:1E08010C:DECODER routines::unsupported", ""))
        ELSE IF found[1].body = "corrupt"
        THEN Throw(Error("error:0680008E:asn1 encoding routines::not enough data", ""))
        ELSE Return(KeyObject("private", found[1].body))

\* crypto.createPublicKey({key: buffer}): the key of the first public key
\* block when the buffer has one, and otherwise the public key derived from
\* the private key that createPrivateKey finds
createPublicKey(blocks) ==
    LET found   == FirstBlock(blocks, "PUBLIC KEY")
        private == createPrivateKey(blocks)
    IN  IF found # <<>>
        THEN IF found[1].body = "corrupt"
             THEN Throw(Error("error:0680008E:asn1 encoding routines::not enough data", ""))
             ELSE Return(KeyObject("public", found[1].body))
        ELSE IF private.kind = "throw" THEN private
        ELSE Return(KeyObject("public", private.value.pair))

\* new HiveKeyPair(publicKey, privateKey)
HiveKeyPair(publicKey, privateKey) ==
    [publicKey |-> publicKey, privateKey |-> privateKey]

\* exportPublicKey(): the modulus and the exponent of the public key's JWK
exportPublicKey(this) ==
    [modulus |-> "n" \o this.publicKey.pair, exponent |-> "AQAB"]

\* no key file written, no key pair operation made
KeysIdle ==
    /\ files = [f \in FilePaths |-> NoFile]
    /\ keyCall = [op |-> "none"]
    /\ keyResult = None

\* create() and createSync(): generateKeyPair gives the two halves of one
\* new pair
KeyCreate(op, pair) ==
    /\ keyCall' = [op |-> op]
    /\ keyResult' = Return(HiveKeyPair(KeyObject("public", pair),
                                       KeyObject("private", pair)))
    /\ UNCHANGED <<now, files, expVars, clientVars, signVars, cliVars>>

\* readFromFile(file) and readFromFileSync(file): the file is read, then the
\* private key and the public key are each parsed from the buffer, and a
\* throw of any of the three ends the call
ReadFromFile(op, file) ==
    LET privateKeyBuffer == files[file]
        privateKey == createPrivateKey(privateKeyBuffer.blocks)
        publicKey  == createPublicKey(privateKeyBuffer.blocks)
    IN  /\ keyCall' = [op |-> op, file |-> file]
        /\ keyResult' =
             IF ~privateKeyBuffer.exists
             THEN Throw(Error("ENOENT: no such file or directory, open ",
                              file))
             ELSE IF privateKey.kind = "throw" THEN privateKey
             ELSE IF publicKey.kind = "throw" THEN publicKey
             ELSE Return(HiveKeyPair(publicKey.value, privateKey.value))
        /\ UNCHANGED <<now, files, expVars, clientVars, signVars, cliVars>>

\* writePrivateKey(filename) and writePrivateKeySync(filename) on the key
\* pair last returned: the file holds the private key as one PEM block
WritePrivateKey(op, filename) ==
    /\ keyResult.kind = "return"
    /\ keyCall' = [op |-> op, file |-> filename]
    /\ files' = [files EXCEPT ![filename] =
                   File(<<Block("PRIVATE KEY",
                                keyResult.value.privateKey.pair)>>)]
    /\ UNCHANGED <<now, keyResult, expVars, clientVars, signVars, cliVars>>

----------------------------------------------------------------------------
(* bin/cli: the commands that sign, in their two versions *)

\* no command run yet
CliIdle ==
    /\ cliCall = [command |-> "none"]
    /\ cliResult = None

\* new AggregateError([ex], `Could not read file ${privateKeyFilename}`)
AggregateError(msg, arg) ==
    [name |-> "AggregateError", message |-> msg, arg |-> arg]

\* HiveJwtCreator.create(partnerId, privateKeyFilename): the signer holds
\* the file's bytes as its private key
HiveJwtCreatorCreate(partnerId, privateKeyFilename) ==
    IF files[privateKeyFilename].exists
    THEN Return(NewSigner(partnerId, files[privateKeyFilename]))
    ELSE Throw(AggregateError("Could not read file ", privateKeyFilename))

\* what a command prints, or the error it exits with: the error of its
\* check, else the error of its handler, else the handler's output
Ran(checked, jwtCreator, output) ==
    IF checked.kind = "throw" THEN checked
    ELSE IF jwtCreator.kind = "throw" THEN jwtCreator
    ELSE output

\* create-jwt in the version that resolves expiresIn itself and gives sign
\* the number of seconds
CreateJwtResolved(file, partnerId, keyId, customerId, videoId, manifest, expiresIn) ==
    LET checked    == checkExpiresIn(expiresIn)
        exp        == [type |-> "number", n |-> checked.value, s |-> <<>>]
        jwtCreator == HiveJwtCreatorCreate(partnerId, file)
    IN  /\ cliCall.command = "none"
        /\ cliCall' = [command |-> "create-jwt", resolvedBy |-> "handler",
                       file |-> file, partnerId |-> partnerId,
                       keyId |-> keyId, customerId |-> customerId,
                       videoId |-> videoId, manifest |-> manifest,
                       expiresIn |-> expiresIn, at |-> now]
        /\ cliResult' = Ran(checked, jwtCreator,
                            sign(jwtCreator.value, keyId, customerId,
                                 videoId, manifest, exp, now))
        /\ UNCHANGED <<now, expVars, clientVars, signVars, keyVars>>

\* create-jwt in the version that gives sign the string as it was typed;
\* the sign of HiveJwtCreator takes its first five arguments
CreateJwtRaw(file, partnerId, keyId, customerId, videoId, manifest, expiresIn) ==
    LET checked    == checkExpiresIn(expiresIn)
        raw        == [type |-> "string", n |-> NaN, s |-> expiresIn]
        jwtCreator == HiveJwtCreatorCreate(partnerId, file)
    IN  /\ cliCall.command = "none"
        /\ cliCall' = [command |-> "create-jwt", resolvedBy |-> "signer",
                       file |-> file, partnerId |-> partnerId,
                       keyId |-> keyId, customerId |-> customerId,
                       videoId |-> videoId, manifest |-> manifest,
                       expiresIn |-> expiresIn, at |-> now]
        /\ cliResult' = Ran(checked, jwtCreator,
                            sign(jwtCreator.value, keyId, customerId,
                                 videoId, manifest, raw, now))
        /\ UNCHANGED <<now, expVars, clientVars, signVars, keyVars>>

\* reporting-url, the same in both versions: expiresIn and the endpoint are
\* checked, and signReporting gets the number of seconds
ReportingUrlCommand(file, partnerId, keyId, customerId, videoId, endpoint, expiresIn) ==
    LET checkedExp == checkExpiresIn(expiresIn)
        checked    == IF checkedExp.kind = "throw" THEN checkedExp
                      ELSE checkEndpoint(endpoint)
        exp        == [type |-> "number", n |-> checkedExp.value, s |-> <<>>]
        jwtCreator == HiveJwtCreatorCreate(partnerId, file)
    IN  /\ cliCall.command = "none"
        /\ cliCall' = [command |-> "reporting-url", file |-> file,
                       partnerId |-> partnerId, keyId |-> keyId,
                       customerId |-> customerId, videoId |-> videoId,
                       endpoint |-> endpoint, expiresIn |-> expiresIn,
                       at |-> now]
        /\ cliResult' = Ran(checked, jwtCreator,
                            signReporting(jwtCreator.value, keyId,
                                          customerId, videoId, exp,
                                          checked.value, now))
        /\ UNCHANGED <<now, expVars, clientVars, signVars, keyVars>>

\* the process has exited
CliExit ==
    /\ cliCall.command # "none"
    /\ cliCall' = [command |-> "none"]
    /\ cliResult' = None
    /\ UNCHANGED <<now, expVars, clientVars, signVars, keyVars>>

----------------------------------------------------------------------------
(* bin/cli: the commands that talk to the registry *)

\* the values HIVE_PARTNER_TOKEN has in the environment: unset, empty, set
TokenSettings == {Absent, "", "t1"}

\* the expiration strings given to publish-key
PublishExpirations == {<<"1", "2">>, <<"1", "h">>, <<"h">>}

\* a process in which no client has been constructed
NoClient ==
    /\ client = None
    /\ built = None
    /\ cpc = "idle"
    /\ call = [op |-> "none"]
    /\ sent = <<>>
    /\ reply = None
    /\ outcome = None

\* the process ends with this exit status, having printed this
Exit(status, printed) ==
    [kind |-> "exit", status |-> status, printed |-> printed]

\* the check of list-keys, get-key and delete-key: the endpoint, then the
\* partner token
checkEndpointAndToken(endpoint, HIVE_PARTNER_TOKEN) ==
    LET e == checkEndpoint(endpoint)
    IN  IF e.kind = "throw" THEN e ELSE checkPartnerToken(HIVE_PARTNER_TOKEN)

\* the check of publish-key: the endpoint, the partner token, the expiration
checkPublishKey(endpoint, HIVE_PARTNER_TOKEN, expiration, clock) ==
    LET c == checkEndpointAndToken(endpoint, HIVE_PARTNER_TOKEN)
    IN  IF c.kind = "throw" THEN c ELSE checkExpiration(expiration, clock)

\* a command is run: yargs parses the arguments and runs the check; when the
\* check throws the message is printed and the process exits with status 1,
\* the handler not having been called
Parsed(argv, checked) ==
    /\ cliCall.command = "none"
    /\ IF checked.kind = "throw"
       THEN /\ cliCall' = [argv EXCEPT !.stage = "exited"]
            /\ cliResult' = Exit(1, checked.error)
       ELSE /\ cliCall' = [argv EXCEPT !.stage = "checked"]
            /\ cliResult' = None
    /\ UNCHANGED <<now, expVars, clientVars, signVars, keyVars>>

\* list-keys --partnerId --endpoint --includeDeleted
ListKeys(partnerId, endpoint, includeDeleted, HIVE_PARTNER_TOKEN) ==
    Parsed([command |-> "list-keys", stage |-> "parsed",
            partnerId |-> partnerId, endpoint |-> endpoint,
            includeDeleted |-> includeDeleted,
            HIVE_PARTNER_TOKEN |-> HIVE_PARTNER_TOKEN],
           checkEndpointAndToken(endpoint, HIVE_PARTNER_TOKEN))

\* get-key --partnerId --endpoint --keyId
GetKey(partnerId, endpoint, keyId, HIVE_PARTNER_TOKEN) ==
    Parsed([command |-> "get-key", stage |-> "parsed",
            partnerId |-> partnerId, endpoint |-> endpoint,
            keyId |-> keyId, HIVE_PARTNER_TOKEN |-> HIVE_PARTNER_TOKEN],
           checkEndpointAndToken(endpoint, HIVE_PARTNER_TOKEN))

\* delete-key --partnerId --endpoint --keyId
DeleteKey(partnerId, endpoint, keyId, HIVE_PARTNER_TOKEN) ==
    Parsed([command |-> "delete-key", stage |-> "parsed",
            partnerId |-> partnerId, endpoint |-> endpoint,
            keyId |-> keyId, HIVE_PARTNER_TOKEN |-> HIVE_PARTNER_TOKEN],
           checkEndpointAndToken(endpoint, HIVE_PARTNER_TOKEN))

\* publish-key --file --partnerId --keyId --expiration --endpoint
PublishKey(file, partnerId, keyId, expiration, endpoint, HIVE_PARTNER_TOKEN) ==
    Parsed([command |-> "publish-key", stage |-> "parsed",
            file |-> file, partnerId |-> partnerId, keyId |-> keyId,
            expiration |-> expiration, endpoint |-> endpoint,
            HIVE_PARTNER_TOKEN |-> HIVE_PARTNER_TOKEN],
           checkPublishKey(endpoint, HIVE_PARTNER_TOKEN, expiration, now))

\* the first statement of each handler: the client is constructed from the
\* partner id, the token in the environment and the checked endpoint; a
\* throw of checkEndpoint is caught by createHandler
ConstructClient ==
    LET e == checkEndpoint(cliCall.endpoint)
    IN  /\ cliCall.command # "none"
        /\ cliCall.stage = "checked"
        /\ IF e.kind = "throw"
           THEN /\ cliCall' = [cliCall EXCEPT !.stage = "exited"]
                /\ cliResult' = Exit(1, e.error)
                /\ UNCHANGED <<client, built>>
           ELSE /\ cliCall' = [cliCall EXCEPT !.stage = "handling"]
                /\ cliResult' = None
                /\ client' = NewClient(cliCall.partnerId,
                                       cliCall.HIVE_PARTNER_TOKEN, e.value)
                /\ built' = [kind |-> "constructed",
                             partnerId |-> cliCall.partnerId,
                             partnerToken |-> cliCall.HIVE_PARTNER_TOKEN,
                             endpoint |-> e.value]
        /\ UNCHANGED <<now, cpc, call, sent, reply, outcome, registry,
                       pending, history, expVars, signVars, keyVars>>

\* the handler of this command has its client and has not called it yet
Handling(command) ==
    /\ cliCall.command = command
    /\ cliCall.stage = "handling"
    /\ cpc = "idle"
    /\ call.op = "none"

\* list-keys: await client.list(includeDeleted)
ListKeysHandler == Handling("list-keys") /\ List(cliCall.includeDeleted)

\* get-key: await client.get(keyId)
GetKeyHandler == Handling("get-key") /\ Get(cliCall.keyId)

\* delete-key: await client.delete(keyId)
DeleteKeyHandler == Handling("delete-key") /\ Delete(cliCall.keyId)

\* publish-key: await HiveKeyPair.readFromFile(file)
PublishKeyRead ==
    /\ Handling("publish-key")
    /\ keyCall.op = "none"
    /\ ReadFromFile("readFromFile", cliCall.file)

\* publish-key: await client.create(...) with the exported public key
PublishKeyHandler ==
    /\ Handling("publish-key")
    /\ keyResult.kind = "return"
    /\ LET publicKey == exportPublicKey(keyResult.value)
       IN  Create(cliCall.partnerId, cliCall.keyId, publicKey.exponent,
                  publicKey.modulus,
                  [type |-> "string", s |-> cliCall.expiration])

\* what the handler prints after its await returned
Printed(argv, value) ==
    CASE argv.command = "delete-key" ->
           [log |-> "Deleted key: " \o argv.partnerId \o "/" \o argv.keyId]
      [] argv.command = "publish-key" ->
           [log |-> "Created key: " \o argv.partnerId \o "/" \o argv.keyId]
      [] OTHER -> [inspect |-> value]

\* createHandler: the handler has run to its end and its output is printed,
\* or what it threw is printed on the error stream and the process exits
\* with status 1
HandlerDone ==
    /\ cliCall.command # "none"
    /\ cliCall.stage = "handling"
    /\ \/ keyResult.kind = "throw"
       \/ cpc = "done"
    /\ cliCall' = [cliCall EXCEPT !.stage = "exited"]
    /\ cliResult' = IF keyResult.kind = "throw"
                    THEN Exit(1, keyResult.error)
                    ELSE IF outcome.kind = "throw"
                    THEN Exit(1, outcome.error)
                    ELSE Exit(0, Printed(cliCall, outcome.value))
    /\ UNCHANGED <<now, expVars, clientVars, signVars, keyVars>>

\* the process is gone, and its client with it
ProcessExit ==
    /\ cliCall.command # "none"
    /\ cliCall.stage = "exited"
    /\ cliCall' = [command |-> "none"]
    /\ cliResult' = None
    /\ client' = None
    /\ built' = None
    /\ cpc' = "idle"
    /\ call' = [op |-> "none"]
    /\ sent' = <<>>
    /\ reply' = None
    /\ outcome' = None
    /\ keyCall' = [op |-> "none"]
    /\ keyResult' = None
    /\ UNCHANGED <<now, files, registry, pending, history, expVars, signVars>>

----------------------------------------------------------------------------
(* The resolver applied to one string under a clock that moves *)

ExpIdle ==
    /\ expMode = "none"
    /\ expAt = 0
    /\ expResult = None

InitExp ==
    /\ now \in Clocks
    /\ expInput \in Strings
    /\ ExpIdle
    /\ ClientIdle("p1", "t1", "prod")
    /\ SignerIdle("p1", "pk1")
    /\ KeysIdle
    /\ CliIdle

\* checkExpiration(expInput) at the current clock
CheckExpiration ==
    /\ expMode' = "absolute"
    /\ expAt' = now
    /\ expResult' = checkExpiration(expInput, now)
    /\ UNCHANGED <<now, expInput, clientVars, signVars, keyVars, cliVars>>

\* checkExpiresIn(expInput)
CheckExpiresIn ==
    /\ expMode' = "relative"
    /\ expAt' = now
    /\ expResult' = checkExpiresIn(expInput)
    /\ UNCHANGED <<now, expInput, clientVars, signVars, keyVars, cliVars>>

\* the wall clock advances; what was computed before stays as computed
Tick ==
    /\ now + ClockStep \in Clocks
    /\ now' = now + ClockStep
    /\ UNCHANGED <<expVars, clientVars, signVars, keyVars, cliVars>>

NextExp == CheckExpiration \/ CheckExpiresIn \/ Tick

SpecExp == InitExp /\ [][NextExp]_vars

----------------------------------------------------------------------------
(* The registry client serving one invocation after another *)

InitClient ==
    /\ now \in Clocks
    /\ expInput = <<>>
    /\ ExpIdle
    /\ \E p \in PartnerIds, t \in PartnerTokens, e \in Endpoints :
          ClientIdle(p, t, e)
    /\ SignerIdle("p1", "pk1")
    /\ KeysIdle
    /\ CliIdle

NextClient ==
    \/ \E k \in KeyIds : Get(k)
    \/ \E d \in BOOLEAN : List(d)
    \/ \E k \in KeyIds : Delete(k)
    \/ \E p \in PartnerIds, k \in KeyIds, x \in ExpirationArgs :
          Create(p, k, "AQAB", "n1", x)
    \/ \E data \in ResponseBodies : Resolve(data)
    \/ \E error \in Rejections : Reject(error)
    \/ Settle
    \/ Tick

SpecClient == InitClient /\ [][NextClient]_vars

----------------------------------------------------------------------------
(* The registry client talking to the registry *)

\* the expiration arguments tried against the registry
RegistryExpirationArgs ==
    {[type |-> "number", n |-> Num(1)],
     [type |-> "string", s |-> <<"1", "2">>]}

\* the failures of the transport itself: the request got no answer
NoAnswers == {e \in Rejections : isAxiosError(e) /\ ~e.hasResponse}

InitRegistry ==
    /\ now \in Clocks
    /\ expInput = <<>>
    /\ ExpIdle
    /\ \E p \in PartnerIds : ClientIdle(p, "t1", "prod")
    /\ SignerIdle("p1", "pk1")
    /\ KeysIdle
    /\ CliIdle

NextRegistry ==
    \/ /\ cpc = "idle"
       /\ \E k \in KeyIds : Get(k)
    \/ /\ cpc = "idle"
       /\ \E d \in BOOLEAN : List(d)
    \/ /\ cpc = "idle"
       /\ \E k \in KeyIds : Delete(k)
    \/ /\ cpc = "idle"
       /\ \E p \in PartnerIds, k \in KeyIds, x \in RegistryExpirationArgs :
             Create(p, k, "AQAB", "n1", x)
    \/ Serve
    \/ \E error \in NoAnswers : Reject(error)
    \/ Settle
    \/ Tick

SpecRegistry == InitRegistry /\ [][NextRegistry]_vars

----------------------------------------------------------------------------
(* One signer and one client, called from call sites that interleave *)

\* the expiresIn arguments tried while the client has calls in flight
ConcurrentExpiresInArgs ==
    {[type |-> "number", n |-> Num(60), s |-> <<>>],
     [type |-> "string", n |-> NaN, s |-> <<"1", "h">>]}

InitConcurrent ==
    /\ now \in Clocks
    /\ expInput = <<>>
    /\ ExpIdle
    /\ ClientIdle("p1", "t1", "prod")
    /\ SignerIdle("p1", "pk1")
    /\ KeysIdle
    /\ CliIdle

NextConcurrent ==
    \/ /\ cpc = "idle"
       /\ Get("k1")
    \/ /\ cpc = "idle"
       /\ List(TRUE)
    \/ /\ cpc = "idle"
       /\ Delete("k1")
    \/ /\ cpc = "idle"
       /\ \E p \in PartnerIds :
             Create(p, "k1", "AQAB", "n1", [type |-> "number", n |-> Num(1)])
    \/ Park
    \/ \E i \in 1..MaxPending : Resume(i)
    \/ Serve
    \/ \E error \in NoAnswers : Reject(error)
    \/ Settle
    \/ /\ signCall.op = "none"
       /\ \E x \in ConcurrentExpiresInArgs :
             Sign("k1", "c1", "v1", <<"a">>, x)
    \/ /\ signCall.op = "none"
       /\ \E x \in ConcurrentExpiresInArgs, e \in Endpoints :
             SignReporting("k1", "c1", "v1", x, e)
    \/ SignReturn
    \/ Tick

SpecConcurrent == InitConcurrent /\ [][NextConcurrent]_vars

----------------------------------------------------------------------------
(* Key pairs created, read from the files there are, and written *)

InitKeys ==
    /\ now = 0
    /\ expInput = <<>>
    /\ ExpIdle
    /\ ClientIdle("p1", "t1", "prod")
    /\ SignerIdle("p1", "pk1")
    /\ files \in [FilePaths -> FileContents]
    /\ keyCall = [op |-> "none"]
    /\ keyResult = None
    /\ CliIdle

NextKeys ==
    \/ \E op \in {"create", "createSync"}, pair \in KeyPairs :
          KeyCreate(op, pair)
    \/ \E op \in {"readFromFile", "readFromFileSync"}, f \in FilePaths :
          ReadFromFile(op, f)
    \/ \E op \in {"writePrivateKey", "writePrivateKeySync"},
          f \in FilePaths : WritePrivateKey(op, f)

SpecKeys == InitKeys /\ [][NextKeys]_vars

----------------------------------------------------------------------------
(* The command line run again and again, one key file there, one missing *)

InitCli ==
    /\ now \in Clocks
    /\ expInput = <<>>
    /\ ExpIdle
    /\ ClientIdle("p1", "t1", "prod")
    /\ SignerIdle("p1", "pk1")
    /\ files = [f \in FilePaths |->
                  IF f = "a.pem" THEN File(<<Block("PRIVATE KEY", "A")>>)
                  ELSE NoFile]
    /\ keyCall = [op |-> "none"]
    /\ keyResult = None
    /\ CliIdle

NextCli ==
    \/ /\ cliCall.command = "none"
       /\ \E f \in FilePaths, x \in Strings :
             CreateJwtResolved(f, "p1", "k1", "c1", "v1", <<"a">>, x)
    \/ /\ cliCall.command = "none"
       /\ \E f \in FilePaths, x \in Strings :
             CreateJwtRaw(f, "p1", "k1", "c1", "v1", <<"a">>, x)
    \/ /\ cliCall.command = "none"
       /\ \E f \in FilePaths, e \in EndpointArgs,
             x \in {a.s : a \in ExpiresInPairArgs} :
               ReportingUrlCommand(f, "p1", "k1", "c1", "v1", e, x)
    \/ CliExit
    \/ Tick

SpecCli == InitCli /\ [][NextCli]_vars

----------------------------------------------------------------------------
(* The registry commands run one after another, the registry answering *)
(* anything                                                            *)

InitCliRegistry ==
    /\ now \in Clocks
    /\ expInput = <<>>
    /\ ExpIdle
    /\ NoClient
    /\ registry = {}
    /\ pending = <<>>
    /\ history = [k \in KeyIds |-> "never"]
    /\ SignerIdle("p1", "pk1")
    /\ files = [f \in FilePaths |->
                  IF f = "a.pem" THEN File(<<Block("PRIVATE KEY", "A")>>)
                  ELSE NoFile]
    /\ keyCall = [op |-> "none"]
    /\ keyResult = None
    /\ CliIdle

NextCliRegistry ==
    \/ /\ cliCall.command = "none"
       /\ \E e \in EndpointArgs, d \in BOOLEAN, t \in TokenSettings :
             ListKeys("p1", e, d, t)
    \/ /\ cliCall.command = "none"
       /\ \E e \in EndpointArgs, t \in TokenSettings :
             GetKey("p1", e, "k1", t)
    \/ /\ cliCall.command = "none"
       /\ \E e \in EndpointArgs, t \in TokenSettings :
             DeleteKey("p1", e, "k1", t)
    \/ /\ cliCall.command = "none"
       /\ \E f \in FilePaths, x \in PublishExpirations,
             e \in EndpointArgs, t \in TokenSettings :
               PublishKey(f, "p1", "k1", x, e, t)
    \/ ConstructClient
    \/ ListKeysHandler
    \/ GetKeyHandler
    \/ DeleteKeyHandler
    \/ PublishKeyRead
    \/ PublishKeyHandler
    \/ /\ cpc = "awaiting"
       /\ \E data \in ResponseBodies : Resolve(data)
    \/ /\ cpc = "awaiting"
       /\ \E error \in Rejections : Reject(error)
    \/ HandlerDone
    \/ ProcessExit
    \/ Tick

SpecCliRegistry == InitCliRegistry /\ [][NextCliRegistry]_vars

----------------------------------------------------------------------------
(* The signer and claim construction, called again and again *)

InitSign ==
    /\ now \in Clocks
    /\ expInput = <<>>
    /\ ExpIdle
    /\ ClientIdle("p1", "t1", "prod")
    /\ \E p \in PartnerIds, k \in PrivateKeys : SignerIdle(p, k)
    /\ KeysIdle
    /\ CliIdle

\* a call is made only when the one before it has returned, which is tested
\* here before the arguments are drawn
NextSign ==
    \/ /\ signCall.op = "none"
       /\ \E k \in KeyIds, c \in CustomerIds, v \in VideoIds, m \in Lists,
             x \in ExpiresInArgs : Sign(k, c, v, m, x)
    \/ /\ signCall.op = "none"
       /\ \E k \in KeyIds, c \in CustomerIds, v \in VideoIds,
             x \in ExpiresInArgs, e \in EndpointArgs :
               SignReporting(k, c, v, x, e)
    \/ /\ signCall.op = "none"
       /\ \E m \in Lists, r \in {Some(l) : l \in Lists} \cup {NoArg} :
             CheckManifestOrArray(m, r)
    \/ SignReturn
    \/ Tick

SpecSign == InitSign /\ [][NextSign]_vars

----------------------------------------------------------------------------
(* The signer called twice, the first token kept beside the second *)

NextSignTwice ==
    \/ /\ signCall.op = "none"
       /\ \E k \in KeyIds, c \in CustomerIds, v \in VideoIds, m \in Lists,
             x \in ExpiresInPairArgs : Sign(k, c, v, m, x)
    \/ SignReturn
    \/ SignKeep
    \/ Tick

SpecSignTwice == InitSign /\ [][NextSignTwice]_vars

----------------------------------------------------------------------------
(* Properties of the registry client *)

\* the pending request was answered with an HTTP response of status st
HttpFailure(st) ==
    /\ reply.kind = "reject"
    /\ reply.error.isAxiosError
    /\ reply.error.hasResponse
    /\ reply.error.status = st

\* the class name of a thrown value
NameOf(e) == IF "name" \in DOMAIN e THEN e.name ELSE "<unnamed>"

Ops == {"create", "get", "list", "delete"}

\* C1: a 403 response makes each of create, get, list and delete throw
\* HiveAuthorizationError; for get(keyId) a 404 response throws
\* HivePublicKeyNotFoundError carrying the client's partner id and keyId, and
\* a 410 response throws HivePublicKeyDeletedError.
C1_StatusMapping ==
    /\ (call.op \in Ops /\ HttpFailure(403))
         => outcome = [kind |-> "throw",
                       error |-> [name |-> "HiveAuthorizationError"]]
    /\ (call.op = "get" /\ HttpFailure(404))
         => outcome = [kind |-> "throw",
                       error |-> [name |-> "HivePublicKeyNotFoundError",
                                  partnerId |-> client.partnerId,
                                  keyId |-> call.keyId]]
    /\ (call.op = "get" /\ HttpFailure(410))
         => /\ outcome.kind = "throw"
            /\ NameOf(outcome.error) = "HivePublicKeyDeletedError"

\* C1 witness: get("k2") of partner p2 answered 404 threw the not-found error
\* for p2/k2
C1_Witness ==
    /\ call.op = "get"
    /\ call.keyId = "k2"
    /\ client.partnerId = "p2"
    /\ HttpFailure(404)
    /\ outcome.error.partnerId = "p2"
    /\ outcome.error.keyId = "k2"

\* the error class the mapping assigns to a status
KindOf(st) ==
    CASE st = 400 -> "HiveValidationError"
      [] st = 403 -> "HiveAuthorizationError"
      [] st = 404 -> "HivePublicKeyNotFoundError"
      [] st = 410 -> "HivePublicKeyDeletedError"

\* C2: for each status in {400, 403, 404, 410} the class of the error thrown
\* depends on the status alone, not on the operation, and the error for 400
\* carries the validation messages of the response body.
C2_UniformMapping ==
    \A st \in {400, 403, 404, 410} :
        (call.op \in Ops /\ HttpFailure(st))
            => /\ outcome.kind = "throw"
               /\ NameOf(outcome.error) = KindOf(st)
               /\ (st = 400 /\ reply.error.data.array)
                     => outcome.error.message =
                          "Public key validation error: "
                            \o JoinWith(reply.error.data.items, "; ")

\* C2 witness: delete answered 400 with two messages threw the validation
\* error carrying both
C2_Witness ==
    /\ call.op = "delete"
    /\ HttpFailure(400)
    /\ Len(reply.error.data.items) = 2
    /\ outcome.error.message
         = "Public key validation error: bad modulus; bad exponent"

\* the failure is none of the four mapped responses
Unmapped(error) ==
    ~(/\ error.isAxiosError
      /\ error.hasResponse
      /\ error.status \in {400, 403, 404, 410})

\* C3: a failure that is not a response with status 400, 403, 404 or 410 is
\* thrown to the caller as the very value the request failed with; the error
\* of an expiration that create could not resolve is thrown as it was raised.
C3_OthersRethrown ==
    /\ (call.op \in Ops /\ reply.kind = "reject" /\ Unmapped(reply.error))
         => outcome = [kind |-> "throw", error |-> reply.error]
    /\ (call.op = "create" /\ cpc = "done" /\ sent = <<>>)
         => \E m \in {"Invalid expiration: ",
                      "val is not a non-empty string or a valid number. val="} :
               outcome = [kind |-> "throw",
                          error |-> [name |-> "Error", message |-> m,
                                     arg |-> call.expiration.s]]

\* C3 witness: list answered 500 threw the AxiosError it got
C3_Witness ==
    /\ call.op = "list"
    /\ HttpFailure(500)
    /\ outcome.kind = "throw"
    /\ outcome.error = reply.error

\* C4: an invocation issues at most one request; when the request fails the
\* invocation ends with that failure thrown and has issued that one request
\* only.
C4_NoRetry ==
    /\ Len(sent) <= 1
    /\ reply.kind = "reject"
         => /\ cpc = "done"
            /\ outcome.kind = "throw"
            /\ Len(sent) = 1

\* C4 witness: a create whose request got no response ended after its one
\* request
C4_Witness ==
    /\ call.op = "create"
    /\ cpc = "done"
    /\ reply.kind = "reject"
    /\ ~reply.error.hasResponse
    /\ Len(sent) = 1
    /\ sent[1].method = "POST"
    /\ outcome.kind = "throw"

----------------------------------------------------------------------------
(* Properties of the signer and of claim construction *)

\* the last call was sign or signReporting and it produced a token
TokenProduced ==
    signCall.op \in {"sign", "signReporting"} /\ signResult.kind = "return"

\* the token the last call produced
TokenOf ==
    IF signCall.op = "sign" THEN signResult.value ELSE signResult.value.token

\* the seconds an expiresIn argument stands for in relative mode
ResolvedSeconds(expiresIn) ==
    IF expiresIn.type = "number" THEN expiresIn.n.v
    ELSE checkExpiresIn(expiresIn.s).value.v

\* C8: every token produced by sign or signReporting has exp equal to iat
\* plus the seconds its expiresIn resolves to in relative mode, and exp
\* strictly greater than iat.
C8_ExpAfterIat ==
    TokenProduced
        => /\ TokenOf.payload.exp
                = TokenOf.payload.iat + ResolvedSeconds(signCall.expiresIn)
           /\ TokenOf.payload.exp > TokenOf.payload.iat

\* the list a claims object carries under a field, empty when it has none
ListIn(claims, field) ==
    IF field \in DOMAIN claims THEN claims[field] ELSE <<>>

\* the message of the claim-construction error
OnlyOne == "Only one of manifest or regex list can be defined."

\* C9: claim construction given a non-empty manifest list and a non-empty
\* regex list fails with the claim-construction error; given an empty
\* manifest list and a non-empty regex list it returns man = [] and regexes =
\* the given list; no claims object and no token carries both a non-empty
\* man and a non-empty regexes.
C9_ManifestRegexExclusive ==
    /\ signCall.op = "checkManifestOrArray"
         => /\ (/\ Len(signCall.manifest) > 0
                /\ signCall.regexes.given
                /\ Len(signCall.regexes.it) > 0)
                  => /\ signResult.kind = "throw"
                     /\ signResult.error.message = OnlyOne
            /\ (/\ Len(signCall.manifest) = 0
                /\ signCall.regexes.given
                /\ Len(signCall.regexes.it) > 0)
                  => signResult = [kind |-> "return",
                                   value |-> [man |-> <<>>,
                                              regexes |-> signCall.regexes.it]]
            /\ signResult.kind = "return"
                  => ~(/\ Len(ListIn(signResult.value, "man")) > 0
                       /\ Len(ListIn(signResult.value, "regexes")) > 0)
    /\ TokenProduced
         => ~(/\ Len(ListIn(TokenOf.payload, "man")) > 0
              /\ Len(ListIn(TokenOf.payload, "regexes")) > 0)

\* C9 witness: claim construction was given manifests ["a"] and regexes
\* ["a", "b"] and threw
C9_Witness ==
    /\ signCall.op = "checkManifestOrArray"
    /\ signCall.manifest = <<"a">>
    /\ signCall.regexes = Some(<<"a", "b">>)
    /\ signResult.kind = "throw"

\* the manifest list is empty and the regex list is empty or absent
BothEmpty ==
    /\ Len(signCall.manifest) = 0
    /\ (~signCall.regexes.given \/ Len(signCall.regexes.it) = 0)

\* C10, as claimed: with both lists empty (or the regex list absent) claim
\* construction does not fail but yields the reporting-only shape, the
\* reporting action marker and no manifest or regex data, and so does sign.
C10_EmptyIsReportingOnly ==
    /\ (signCall.op = "checkManifestOrArray" /\ BothEmpty)
         => signResult = [kind |-> "return", value |-> [act |-> "reporting"]]
    /\ (signCall.op = "sign" /\ Len(signCall.manifests) = 0 /\ TokenProduced)
         => /\ "act" \in DOMAIN TokenOf.payload
            /\ "man" \notin DOMAIN TokenOf.payload

\* C10, amended: with both lists empty (or the regex list absent) claim
\* construction fails with the claim-construction error; a token produced by
\* sign carries man equal to the manifests it was given, empty or not, and
\* never the reporting action marker.
C10_EmptyIsRejected ==
    /\ (signCall.op = "checkManifestOrArray" /\ BothEmpty)
         => /\ signResult.kind = "throw"
            /\ signResult.error.message = OnlyOne
    /\ (signCall.op = "sign" /\ TokenProduced)
         => /\ "act" \notin DOMAIN TokenOf.payload
            /\ TokenOf.payload.man = signCall.manifests

\* C10 witness: claim construction was given no manifests and no regex
\* argument and threw
C10_Witness ==
    /\ signCall.op = "checkManifestOrArray"
    /\ signCall.manifest = <<>>
    /\ signCall.regexes = NoArg
    /\ signResult.kind = "throw"

\* the text signReporting puts before the token for a host name
ReportingUrl(host) ==
    "https://" \o host \o ".hivestreaming.com/v1/url-redirect/adminportal-jwt/"

\* C11: signReporting with endpoint prod returns the URL on host api, with
\* endpoint test the same URL on host api-test, and with any other endpoint
\* it fails with the invalid-endpoint error and returns no URL.
C11_EndpointSelectsHost ==
    signCall.op = "signReporting"
        => /\ (signCall.endpoint = "prod" /\ signResult.kind = "return")
                => signResult.value.url = ReportingUrl("api")
           /\ (signCall.endpoint = "test" /\ signResult.kind = "return")
                => signResult.value.url = ReportingUrl("api-test")
           /\ signCall.endpoint \notin {"prod", "test"}
                => /\ signResult.kind = "throw"
                   /\ signResult.error
                        = Error("Invalid endpoint: ", signCall.endpoint)

\* both calls are sign calls that returned a token, made with the same
\* customer, video, manifests and expiresIn under the same clock value
SamePairButKeyId ==
    /\ signPrev.kind = "call"
    /\ signPrev.call.op = "sign"
    /\ signCall.op = "sign"
    /\ signPrev.result.kind = "return"
    /\ signResult.kind = "return"
    /\ signPrev.call.customerId = signCall.customerId
    /\ signPrev.call.videoId = signCall.videoId
    /\ signPrev.call.manifests = signCall.manifests
    /\ signPrev.call.expiresIn = signCall.expiresIn
    /\ signPrev.call.at = signCall.at

C13_TokenFields ==
    TokenProduced
        => /\ TokenOf.payload.iss = signer.partnerId
           /\ TokenOf.payload.sub = signCall.videoId
           /\ TokenOf.payload.cid = signCall.customerId
           /\ TokenOf.payload.ver = "1.0"
           /\ TokenOf.payload.aud = "https://hivestreaming.com"
           /\ TokenOf.header.alg = "RS256"
           /\ TokenOf.header.kid = signCall.keyId
           /\ signCall.op = "sign"
                => /\ "man" \in DOMAIN TokenOf.payload
                   /\ TokenOf.payload.man = signCall.manifests
           /\ signCall.op = "signReporting"
                => /\ "act" \in DOMAIN TokenOf.payload
                   /\ TokenOf.payload.act = "reporting"
                   /\ "man" \notin DOMAIN TokenOf.payload
                   /\ "regexes" \notin DOMAIN TokenOf.payload

\* a sign call for the second key has returned a token with two manifests
C13_Witness ==
    /\ TokenProduced
    /\ signCall.op = "sign"
    /\ signCall.keyId = "k2"
    /\ Len(signCall.manifests) = 2

----------------------------------------------------------------------------
(* Properties of the resolver *)

\* s matches ^\d+$
MatchesDigits(s) == Len(s) > 0 /\ \A i \in 1..Len(s) : s[i] \in DigitChars

\* the number a string of decimal digits denotes
DecimalOf(s) ==
    LET RECURSIVE Sum(_)
        Sum(i) == IF i > Len(s) THEN 0
                  ELSE DigitVal(s[i]) * Pow10(Len(s) - i) + Sum(i + 1)
    IN  Sum(1)

\* s is a duration string that ms can parse
Parseable(s) == MsParse(s).def

\* v = floor(q) for the rational q = num / den, den > 0
IsFloorOf(v, num, den) == v * den <= num /\ num < (v + 1) * den

\* C5: for every string of decimal digits, checkExpiration and checkExpiresIn
\* both return the integer the digits denote, whatever the clock reads when
\* they run and however it moves afterwards.
C5_NumericReturnsParseInt ==
    (expMode # "none" /\ MatchesDigits(expInput))
        => expResult = Return(Num(DecimalOf(expInput)))

\* C5 witness: the absolute resolver ran on "12" at a clock past the epoch
C5_Witness ==
    /\ expMode = "absolute"
    /\ expInput = <<"1", "2">>
    /\ expAt > 0
    /\ now > expAt
    /\ expResult = Return(Num(12))

\* C6: for every non-numeric duration string that ms parses to d milliseconds,
\* checkExpiration run at clock T returns floor((T + d) / 1000) and
\* checkExpiresIn returns floor(d / 1000).
C6_DurationIsFloored ==
    (expMode # "none" /\ ~MatchesDigits(expInput) /\ Parseable(expInput))
        => LET d == MsParse(expInput)
               T == IF expMode = "absolute" THEN expAt ELSE 0
           IN  /\ expResult.kind = "return"
               /\ ~expResult.value.nan
               /\ IsFloorOf(expResult.value.v, T * d.den + d.num, 1000 * d.den)

\* C6 witness: "-.1" (a tenth of a millisecond back) resolved at clock 1500
\* gives second 1, where the clock's second and the duration's second, floored
\* apart, would give 0
C6_Witness ==
    /\ expMode = "absolute"
    /\ expInput = <<"-", ".", "1">>
    /\ expAt = 2 * ClockStep
    /\ expResult = Return(Num(1))

\* C7: every string that is neither all digits nor a parseable duration makes
\* both resolvers throw their own invalid-expiration error carrying the
\* string, and no resolver ever returns NaN.
C7_InvalidInputRejected ==
    /\ (expMode # "none" /\ ~MatchesDigits(expInput) /\ ~Parseable(expInput))
         => /\ expResult.kind = "throw"
            /\ expResult.error.message = (IF expMode = "absolute"
                                          THEN "Invalid expiration: "
                                          ELSE "Invalid expiresIn: ")
            /\ expResult.error.arg = expInput
    /\ (expMode # "none" /\ expResult.kind = "return") => ~expResult.value.nan

----------------------------------------------------------------------------
(* Properties of create *)

\* C14: create resolves the expiration before transmission: the payload of
\* the POST carries the number given, or the absolute-mode resolution of the
\* string given, and when the string cannot be resolved the call fails with
\* the invalid-expiration error and no request is sent.
C14_ExpirationResolvedFirst ==
    call.op = "create"
        => LET x == call.expiration
           IN  IF x.type = "number"
               THEN /\ Len(sent) = 1
                    /\ sent[1].method = "POST"
                    /\ sent[1].body.expiration = x.n
               ELSE IF MatchesDigits(x.s)
               THEN /\ Len(sent) = 1
                    /\ sent[1].method = "POST"
                    /\ sent[1].body.expiration = Num(DecimalOf(x.s))
               ELSE IF Parseable(x.s)
               THEN /\ Len(sent) = 1
                    /\ sent[1].method = "POST"
                    /\ ~sent[1].body.expiration.nan
                    /\ \E t \in Clocks :
                         /\ t <= now
                         /\ IsFloorOf(sent[1].body.expiration.v,
                                      t * MsParse(x.s).den + MsParse(x.s).num,
                                      1000 * MsParse(x.s).den)
               ELSE /\ sent = <<>>
                    /\ outcome.kind = "throw"
                    /\ outcome.error = Error("Invalid expiration: ", x.s)

----------------------------------------------------------------------------
(* Properties of the key lifecycle *)

\* where a record is in its lifecycle at a clock: 0 active, 1 expired,
\* 2 deleted
Phase(r, clock) ==
    IF r.deletedAt # <<>> THEN 2
    ELSE IF r.expiration <= clock \div 1000 THEN 1
    ELSE 0

RegistryAnswered ==
    /\ cpc = "awaiting"
    /\ cpc' = "done"
    /\ reply'.kind = "reject"
         => /\ isAxiosError(reply'.error)
            /\ reply'.error.hasResponse
            /\ reply'.error.status # 403

\* C16: get(keyId) returns the full record iff the partner's successful calls
\* created keyId and have not since deleted it; it fails with NotFoundError if
\* they never created it and with DeletedError if they created and then
\* deleted it; delete on an absent or deleted key fails with the same errors.
C16_GetFollowsHistory ==
    [][(RegistryAnswered /\ call.op \in {"get", "delete"})
          => LET was == history[call.keyId]
             IN  /\ was = "never"
                      => /\ outcome'.kind = "throw"
                         /\ NameOf(outcome'.error)
                              = "HivePublicKeyNotFoundError"
                 /\ was = "deleted"
                      => /\ outcome'.kind = "throw"
                         /\ NameOf(outcome'.error)
                              = "HivePublicKeyDeletedError"
                 /\ was = "created" => outcome'.kind = "return"
                 /\ (call.op = "get" /\ outcome'.kind = "return")
                      => /\ was = "created"
                         /\ DOMAIN outcome'.value
                              = {"partnerId", "keyId", "exponent", "modulus",
                                 "expiration", "createdAt"}
                         /\ outcome'.value.partnerId = client.partnerId
                         /\ outcome'.value.keyId = call.keyId]_vars

\* a get of a key the partner created and then deleted has failed with
\* DeletedError, the other key still there
C16_Witness ==
    /\ cpc = "done"
    /\ call.op = "get"
    /\ history[call.keyId] = "deleted"
    /\ outcome.kind = "throw"
    /\ NameOf(outcome.error) = "HivePublicKeyDeletedError"
    /\ \E k \in KeyIds : history[k] = "created"

\* C17: every record in the sequence list returns is redacted: it has partner
\* id, key id, expiration, createdAt and at most deletedAt besides, and no
\* exponent and no modulus, whatever the registry holds and whatever
\* includeDeleted is.
C17_ListIsRedacted ==
    (call.op = "list" /\ outcome.kind = "return")
        => \A i \in 1..Len(outcome.value) :
              /\ {"partnerId", "keyId", "expiration", "createdAt"}
                    \subseteq DOMAIN outcome.value[i]
              /\ DOMAIN outcome.value[i]
                    \subseteq {"partnerId", "keyId", "expiration",
                               "createdAt", "deletedAt"}

\* list(true) has returned a deleted record and one that is not
C17_Witness ==
    /\ call.op = "list"
    /\ call.includeDeleted
    /\ outcome.kind = "return"
    /\ Len(outcome.value) = 2
    /\ \E i \in 1..2 : "deletedAt" \in DOMAIN outcome.value[i]
    /\ \E i \in 1..2 : "deletedAt" \notin DOMAIN outcome.value[i]

----------------------------------------------------------------------------
(* Properties of calls that interleave *)

\* what the signing call on record returns when it runs alone on a signer
\* constructed as this one was
AloneResult ==
    IF signCall.op = "sign"
    THEN sign(NewSigner("p1", "pk1"), signCall.keyId, signCall.customerId,
              signCall.videoId, signCall.manifests, signCall.expiresIn,
              signCall.at)
    ELSE signReporting(NewSigner("p1", "pk1"), signCall.keyId,
                       signCall.customerId, signCall.videoId,
                       signCall.expiresIn, signCall.endpoint, signCall.at)

\* C18: however signing calls and client calls interleave, the signer and
\* the client keep the configuration they were constructed with, and each
\* signing call has the result it has when run alone with the same inputs
\* and clock.
C18_NonInterference ==
    /\ signer = NewSigner("p1", "pk1")
    /\ client = NewClient("p1", "t1", "prod")
    /\ signCall.op \in {"sign", "signReporting"} => signResult = AloneResult

\* a signing call made while one client call waits and another awaits its
\* answer has returned a token
C18_Witness ==
    /\ Len(pending) > 0
    /\ cpc = "awaiting"
    /\ call.op # pending[1].call.op
    /\ signCall.op = "sign"
    /\ signResult.kind = "return"

----------------------------------------------------------------------------
(* Properties of key loading *)

\* the buffer holds no private key that decodes
Malformed(file) ==
    /\ file.exists
    /\ \A i \in 1..Len(file.blocks) :
          file.blocks[i].label = "PRIVATE KEY"
              => file.blocks[i].body = "corrupt"

\* C19: readFromFile and readFromFileSync on malformed PEM input throw the
\* parser's error and return no HiveKeyPair, and every HiveKeyPair returned by
\* create, createSync, readFromFile or readFromFileSync holds a private key
\* and the public key of that same private key.
C19_LoadedTogether ==
    /\ (keyCall.op \in {"readFromFile", "readFromFileSync"}
        /\ Malformed(files[keyCall.file]))
         => /\ keyResult.kind = "throw"
            /\ keyResult.error
                 \in {createPrivateKey(<<>>).error,
                      createPrivateKey(<<Block("PRIVATE KEY",
                                               "corrupt")>>).error}
    /\ (keyCall.op \in {"create", "createSync", "readFromFile",
                        "readFromFileSync"}
        /\ keyResult.kind = "return")
         => /\ keyResult.value.privateKey.type = "private"
            /\ keyResult.value.publicKey.type = "public"
            /\ keyResult.value.publicKey.pair
                 = keyResult.value.privateKey.pair

----------------------------------------------------------------------------
(* Properties of the command line *)

\* create-jwt ran with an expiresIn its check accepts, numeric seconds or a
\* duration string, on a key file that is there
CreateJwtAccepted ==
    /\ cliCall.command = "create-jwt"
    /\ files[cliCall.file].exists
    /\ MatchesDigits(cliCall.expiresIn) \/ Parseable(cliCall.expiresIn)

\* C20: for every expiresIn string accepted by the create-jwt check, the
\* handler that resolves it with checkExpiresIn and the handler that hands
\* the string to the signer both print a token whose exp - iat is the number
\* of seconds the string stands for in relative mode: the digits' value for a
\* numeric string, the floor of the duration in seconds otherwise.
C20_FrontEndsAgree ==
    CreateJwtAccepted
        => /\ cliResult.kind = "return"
           /\ LET x        == cliCall.expiresIn
                  lifetime == cliResult.value.payload.exp
                                - cliResult.value.payload.iat
              IN  IF MatchesDigits(x) THEN lifetime = DecimalOf(x)
                  ELSE IsFloorOf(lifetime, MsParse(x).num,
                                 1000 * MsParse(x).den)


\* ---------------------------------------------------------------------
\* Properties of the client's addressing
\* ---------------------------------------------------------------------

\* the hostname the requests of a client constructed for this endpoint go to
HostOf(endpoint) == IF endpoint = "prod" THEN "api" ELSE "api-" \o endpoint

\* the paths under which get, list and delete address this partner
PartnerPaths(partnerId) ==
    {"/publickey/" \o partnerId \o "/" \o k : k \in KeyIds}
    \cup {"/publickey/" \o partnerId \o "?includeDeleted=" \o b
            : b \in {"true", "false"}}

\* C21: every request issued by get, list and delete is addressed to the
\* partner id given at construction and carries the partner token given at
\* construction in the X-Hive-Partner-Token header; the endpoint given at
\* construction decides the hostname only (api for prod, api-<endpoint>
\* otherwise); and the client's partner id, token and base URL stay what
\* the constructor made them, whatever operations have run.
C21_AddressedAsConstructed ==
    /\ built.kind = "constructed"
    /\ client.partnerId = built.partnerId
    /\ client.headers.XHivePartnerToken = built.partnerToken
    /\ client.baseURL =
         "https://" \o HostOf(built.endpoint) \o ".hivestreaming.com/v1"
    /\ \A i \in 1..Len(sent) :
         call.op \in {"get", "list", "delete"} =>
           /\ sent[i].url \in PartnerPaths(built.partnerId)
           /\ sent[i].headers.XHivePartnerToken = built.partnerToken
           /\ sent[i].baseURL =
                "https://" \o HostOf(built.endpoint) \o ".hivestreaming.com/v1"

\* a delete of the second partner's client for the test endpoint is in
\* flight, after an earlier invocation of the same client has been answered
C21_Witness ==
    /\ built.partnerId = "p2"
    /\ built.endpoint = "test"
    /\ call.op = "delete"
    /\ cpc = "awaiting"
    /\ Len(sent) = 1
    /\ sent[1].url = "/publickey/p2/k1"
    /\ sent[1].baseURL = "https://api-test.hivestreaming.com/v1"
    /\ \E k \in KeyIds : history[k] # "never"


\* C22: for each operation that is given a key id (get, create, delete), a
\* 404 response makes it throw HivePublicKeyNotFoundError and a 410 response
\* HivePublicKeyDeletedError, and the error identifies both the client's
\* partner id and the key id that was passed to the operation.
C22_ErrorNamesKey ==
    \A st \in {404, 410} :
        (call.op \in {"get", "create", "delete"} /\ HttpFailure(st))
          => outcome = [kind |-> "throw",
                        error |-> [name |-> IF st = 404
                                            THEN "HivePublicKeyNotFoundError"
                                            ELSE "HivePublicKeyDeletedError",
                                   partnerId |-> client.partnerId,
                                   keyId |-> call.keyId]]


\* ---------------------------------------------------------------------
\* Properties of the registry commands
\* ---------------------------------------------------------------------

RegistryCommands == {"list-keys", "get-key", "delete-key", "publish-key"}

\* the client operation each command's handler awaits
OperationOf(command) ==
    CASE command = "list-keys" -> "list"
      [] command = "get-key" -> "get"
      [] command = "delete-key" -> "delete"
      [] command = "publish-key" -> "create"

\* the command was run with no usable partner token or with an endpoint
\* other than prod and test
Unusable(argv) ==
    \/ argv.HIVE_PARTNER_TOKEN = Absent
    \/ argv.HIVE_PARTNER_TOKEN = ""
    \/ argv.endpoint \notin {"prod", "test"}

\* the registry call of the running command has completed without error
CallCompleted ==
    /\ built.kind = "constructed"
    /\ cpc = "done"
    /\ call.op = OperationOf(cliCall.command)
    /\ Len(sent) = 1
    /\ reply.kind = "resolve"
    /\ outcome.kind = "return"

\* the success message of delete-key and publish-key
SuccessMessage(argv) ==
    (IF argv.command = "delete-key" THEN "Deleted key: " ELSE "Created key: ")
      \o argv.partnerId \o "/" \o argv.keyId

\* C23: for list-keys, get-key, delete-key and publish-key the check of the
\* endpoint and of the partner token runs before the handler: when
\* HIVE_PARTNER_TOKEN is undefined or empty, or the endpoint is neither prod
\* nor test, no registry client is constructed and no request is sent, and
\* the process exits with status 1; a command exits with status 0 only after
\* its registry call completed without error, delete-key and publish-key
\* having printed "Deleted key: ..." and "Created key: ..." then; and a
\* command that ended otherwise exited with status 1.
C23_CheckedBeforeHandled ==
    cliCall.command \in RegistryCommands =>
      /\ Unusable(cliCall) =>
           /\ built.kind = "none"
           /\ client = None
           /\ cpc = "idle"
           /\ sent = <<>>
           /\ cliCall.stage = "exited"
           /\ cliResult.status = 1
      /\ (cliResult.kind = "exit" /\ cliResult.status = 0) =>
           /\ CallCompleted
           /\ cliCall.command \in {"delete-key", "publish-key"} =>
                cliResult.printed = [log |-> SuccessMessage(cliCall)]
      /\ (cliResult.kind = "exit" /\ "log" \in DOMAIN cliResult.printed) =>
           CallCompleted
      /\ cliCall.stage = "exited" =>
           /\ cliResult.kind = "exit"
           /\ ~CallCompleted => cliResult.status = 1

\* publish-key has printed "Created key: p1/k1" and exited with status 0,
\* its client constructed for the test endpoint with the token of the
\* environment and its one request answered
C23_Witness ==
    /\ cliCall.command = "publish-key"
    /\ cliCall.stage = "exited"
    /\ cliCall.endpoint = "test"
    /\ cliCall.HIVE_PARTNER_TOKEN = "t1"
    /\ built.kind = "constructed"
    /\ built.partnerToken = "t1"
    /\ Len(sent) = 1
    /\ sent[1].method = "POST"
    /\ reply.kind = "resolve"
    /\ cliResult = Exit(0, [log |-> "Created key: p1/k1"])

====
